---- MODULE Spec2Model ----
(***************************************************************************)
(* A model of ipcalc.c: the address arithmetic (prefix2mask, calc_network, *)
(* calc_broadcast, bit_count, ipv4_mask_to_int, ipv6_prefix_to_mask), the  *)
(* address-space classifiers, get_ipv4_info / get_ipv6_info and the part   *)
(* of main that resolves the prefix, calls them and displays the result.   *)
(*                                                                         *)
(* Representation.  A 32-bit word (uint32_t, and int where the code relies *)
(* on its bit pattern) is a sequence of four bytes, most significant byte  *)
(* first, so that every value of the full 32-bit range is representable    *)
(* and arithmetic wraps modulo 2^32.  The host is little-endian, so htonl  *)
(* and ntohl reverse the bytes.  An IPv6 address is its 16 bytes s6_addr.  *)
(* Text is modelled by its parsed structure: a dotted IPv4 string is the   *)
(* sequence of its decimal components, an IPv6 string the sequence of its  *)
(* 16-bit groups (zero compression is not modelled), NULL is <<>>.         *)
(***************************************************************************)
EXTENDS Integers, Sequences, FiniteSets

\* ------------------------------------------------------------------------
\* Bounds of the model
\* ------------------------------------------------------------------------

\* explicit IPv4 prefix strings tried: -2 .. MaxPrefixIn4 (32 is the last valid one)
MaxPrefixIn4 == 34

\* explicit IPv6 prefix strings tried: -2 .. MaxPrefixIn6 (128 is the last valid one)
MaxPrefixIn6 == 130

\* ------------------------------------------------------------------------
\* 8-bit and 32-bit arithmetic
\* ------------------------------------------------------------------------

Pow2(n) == 2 ^ n

RECURSIVE And8(_, _)
\* a & b on bytes
And8(a, b) ==
    IF a = 0 \/ b = 0 THEN 0
    ELSE (a % 2) * (b % 2) + 2 * And8(a \div 2, b \div 2)

\* a | b on bytes
Or8(a, b) == a + b - And8(a, b)

\* (unsigned char) ~a
Not8(a) == 255 - a

\* a 32-bit word from its two 16-bit halves
FromHL(hi, lo) == << hi \div 256, hi % 256, lo \div 256, lo % 256 >>

Hi16(w) == w[1] * 256 + w[2]

Lo16(w) == w[3] * 256 + w[4]

Zero32 == << 0, 0, 0, 0 >>

One32 == << 0, 0, 0, 1 >>

Two32 == << 0, 0, 0, 2 >>

\* a & b on 32-bit words
And32(a, b) == [ i \in 1..4 |-> And8(a[i], b[i]) ]

\* a | b on 32-bit words
Or32(a, b) == [ i \in 1..4 |-> Or8(a[i], b[i]) ]

\* ~a on 32-bit words
Not32(a) == [ i \in 1..4 |-> Not8(a[i]) ]

\* a - b on 32-bit words, wrapping modulo 2^32
Sub32(a, b) ==
    LET lo     == Lo16(a) - Lo16(b)
        borrow == IF lo < 0 THEN 1 ELSE 0
        hi     == Hi16(a) - Hi16(b) - borrow
    IN  FromHL((hi + 65536) % 65536, (lo + 65536) % 65536)

\* 1 << n for a shift count 0 <= n <= 31
Shl1(n) == IF n < 16 THEN FromHL(0, Pow2(n)) ELSE FromHL(Pow2(n - 16), 0)

\* The values `1 << n` can take for 0 <= n <= 32.  A count of 32 is the
\* width of int: the behaviour is undefined, and a build yields 1 (the
\* count is taken modulo 32, as the x86 shift does) or 0 (the bit is
\* shifted out, as ARM does or a folded constant gives).
Shl1Outcomes(n) == IF n < 32 THEN { Shl1(n) } ELSE { Shl1(n % 32), Zero32 }

\* i >> 1 on an unsigned 32-bit word
Shr32(w) ==
    << w[1] \div 2,
       (w[1] % 2) * 128 + w[2] \div 2,
       (w[2] % 2) * 128 + w[3] \div 2,
       (w[3] % 2) * 128 + w[4] \div 2 >>

\* htonl / ntohl on a little-endian host: the four bytes reversed
htonl(w) == << w[4], w[3], w[2], w[1] >>

ntohl(w) == << w[4], w[3], w[2], w[1] >>

\* ------------------------------------------------------------------------
\* Text <-> binary
\* ------------------------------------------------------------------------

NULL == << >>

\* inet_pton(AF_INET, ...): 1 when the text is four decimal components, each
\* at most 255, and 0 otherwise
inet_pton4_ok(str) ==
    /\ Len(str) = 4
    /\ \A i \in 1..4 : str[i] \in 0..255

\* the s_addr inet_pton stores: the components are the bytes in memory
\* order, which a little-endian host reads least significant byte first
inet_pton4(str) == << str[4], str[3], str[2], str[1] >>

\* inet_ntop(AF_INET, ...): the bytes of s_addr in memory order
inet_ntop4(addr) == << addr[4], addr[3], addr[2], addr[1] >>

\* ------------------------------------------------------------------------
\* IPv4 arithmetic
\* ------------------------------------------------------------------------

\* prefix2mask without the "- 1": the complement of the single shifted bit
prefix2mask_no_minus(prefix) ==
    IF prefix # 0
    THEN htonl(Not32(Shl1(32 - prefix)))
    ELSE htonl(Zero32)

\* struct in_addr prefix2mask(int prefix), for 0 <= prefix <= 32
prefix2mask(prefix) ==
    IF prefix # 0
    THEN htonl(Not32(Sub32(Shl1(32 - prefix), One32)))
    ELSE htonl(Zero32)

\* struct in_addr calc_broadcast(struct in_addr addr, int prefix)
calc_broadcast(addr, prefix) ==
    LET mask == prefix2mask(prefix)
    IN  Or32(And32(addr, mask), Not32(mask))

\* struct in_addr calc_network(struct in_addr addr, int prefix)
calc_network(addr, prefix) ==
    LET mask == prefix2mask(prefix)
    IN  And32(addr, mask)

\* struct in_addr default_netmask(struct in_addr addr)
default_netmask(addr) ==
    IF ntohl(addr)[1] <= 127 THEN htonl(<< 255, 0, 0, 0 >>)
    ELSE IF ntohl(addr)[1] <= 191 THEN htonl(<< 255, 255, 0, 0 >>)
    ELSE htonl(<< 255, 255, 255, 0 >>)

RECURSIVE bit_count_loop(_, _, _)
\* the while loop of bit_count
bit_count_loop(i, c, seen_one) ==
    IF i = Zero32 THEN (IF c = 0 THEN -1 ELSE c)
    ELSE IF i[4] % 2 = 1 THEN bit_count_loop(Shr32(i), c + 1, 1)
    ELSE IF seen_one = 1 THEN -1
    ELSE bit_count_loop(Shr32(i), c, seen_one)

\* bit_count with the shift done before the lowest bit is looked at
bit_count_shift_first(i) == bit_count_loop(Shr32(i), 0, 0)

\* int bit_count(uint32_t i)
bit_count(i) == bit_count_loop(i, 0, 0)

\* int ipv4_mask_to_int(const char *prefix)
ipv4_mask_to_int(str) ==
    IF ~ inet_pton4_ok(str) THEN -1
    ELSE bit_count(ntohl(inet_pton4(str)))

\* ------------------------------------------------------------------------
\* The result record
\* ------------------------------------------------------------------------

\* a NULL `const char *type`
NoType == ""

\* ip_info_st after memset(info, 0, sizeof(*info))
InfoZero ==
    [ expanded_ip      |-> NULL,
      expanded_network |-> NULL,
      network          |-> NULL,
      broadcast        |-> NULL,
      netmask          |-> NULL,
      hostname         |-> NULL,
      prefix           |-> 0,
      hostmin          |-> NULL,
      hostmax          |-> NULL,
      type             |-> NoType ]

\* ------------------------------------------------------------------------
\* IPv4 classification
\* ------------------------------------------------------------------------

\* char *ipv4_net_to_type(struct in_addr net)
ipv4_net_to_type(net) ==
    LET byte1 == ntohl(net)[1]
        byte2 == ntohl(net)[2]
        byte3 == ntohl(net)[3]
        byte4 == ntohl(net)[4]
    IN  IF byte1 = 0 THEN "This host on this network"
        ELSE IF byte1 = 10 THEN "Private Use"
        ELSE IF byte1 = 100 /\ And8(byte2, 192) = 64 THEN "Shared Address Space"
        ELSE IF byte1 = 127 THEN "Loopback"
        ELSE IF byte1 = 169 /\ byte2 = 254 THEN "Link Local"
        ELSE IF byte1 = 172 /\ And8(byte2, 240) = 16 THEN "Private Use"
        ELSE IF byte1 = 192 /\ byte2 = 0 /\ byte3 = 0 THEN "IETF Protocol Assignments"
        ELSE IF byte1 = 192 /\ byte2 = 2 /\ byte3 = 0 THEN "Documentation (TEST-NET-1)"
        ELSE IF byte1 = 192 /\ byte2 = 51 /\ byte3 = 100 THEN "Documentation (TEST-NET-2)"
        ELSE IF byte1 = 203 /\ byte2 = 0 /\ byte3 = 113 THEN "Documentation (TEST-NET-3)"
        ELSE IF byte1 = 192 /\ byte2 = 88 /\ byte3 = 99 THEN "6 to 4 Relay Anycast (Deprecated)"
        ELSE IF byte1 = 192 /\ byte2 = 52 /\ byte3 = 193 THEN "AMT"
        ELSE IF byte1 = 192 /\ byte2 = 168 THEN "Private Use"
        ELSE IF byte1 = 255 /\ byte2 = 255 /\ byte3 = 255 /\ byte4 = 255 THEN "Limited Broadcast"
        ELSE IF byte1 = 192 /\ And8(byte2, 254) = 18 THEN "Private Use"
        ELSE IF byte1 >= 224 /\ byte1 <= 239 THEN "Multicast"
        ELSE IF And8(byte1, 240) = 240 THEN "Reserved"
        ELSE "Internet or Reserved for Future use"

\* ------------------------------------------------------------------------
\* Host name lookup
\* ------------------------------------------------------------------------

\* tolower on one character code
tolower(c) == IF c >= 65 /\ c <= 90 THEN c + 32 ELSE c

\* char *get_hostname(int family, void *addr); hostinfo is what
\* gethostbyaddr answers: NULL, or the characters of h_name
get_hostname(hostinfo) ==
    IF hostinfo = NULL THEN NULL
    ELSE [ x \in 1..Len(hostinfo) |-> tolower(hostinfo[x]) ]

\* ------------------------------------------------------------------------
\* get_ipv4_info
\* ------------------------------------------------------------------------

RECURSIVE append_zero(_, _)
\* the second loop of the CIDR handling: ".0" appended i times
append_zero(ipStr, i) ==
    IF i > 0 THEN append_zero(Append(ipStr, 0), i - 1) ELSE ipStr

\* the CIDR handling with the first loop started at i = 2: one ".0" short
ipv4_expand_cidr_one_short(ipStr, prefix) ==
    IF prefix >= 0
    THEN LET dots == IF Len(ipStr) - 1 < 2 THEN Len(ipStr) - 1 ELSE 2
         IN  append_zero(ipStr, 2 - dots)
    ELSE ipStr

\* "Handle CIDR entries such as 172/8": the first loop leaves i at 3 less
\* the number of dots found (at most three are looked for)
ipv4_expand_cidr(ipStr, prefix) ==
    IF prefix >= 0
    THEN LET dots == IF Len(ipStr) - 1 < 3 THEN Len(ipStr) - 1 ELSE 3
         IN  append_zero(ipStr, 3 - dots)
    ELSE ipStr

\* the host-min computation with the network left as it is
ipv4_minhost_no_or(network, prefix) == network

\* minhost of get_ipv4_info, for prefix < 32
ipv4_minhost(network, prefix) ==
    IF prefix <= 30 THEN htonl(Or32(ntohl(network), One32)) ELSE network

\* maxhost of get_ipv4_info, for prefix < 32
ipv4_maxhost(network, netmask, prefix) ==
    LET maxhost == Or32(network, Not32(netmask))
    IN  IF prefix <= 30 THEN htonl(Sub32(ntohl(maxhost), One32)) ELSE maxhost

\* int get_ipv4_info(ipStr, prefix, info, beSilent, showHostname): the
\* return value, the record it leaves, and its ipStr as handed to inet_pton
get_ipv4_info(ipStr0, prefix0, showHostname, hostinfo) ==
    LET ipStr     == ipv4_expand_cidr(ipStr0, prefix0)
        prefix    == IF prefix0 >= 0 THEN prefix0 ELSE 32
    IN  IF ~ inet_pton4_ok(ipStr) THEN [ ret |-> -1, info |-> InfoZero, ipStr |-> ipStr ]
        ELSE IF prefix > 32 THEN [ ret |-> -1, info |-> InfoZero, ipStr |-> ipStr ]
        ELSE
        LET ip        == inet_pton4(ipStr)
            netmask   == prefix2mask(prefix)
            broadcast == calc_broadcast(ip, prefix)
            network   == calc_network(ip, prefix)
            hostname  == IF showHostname THEN get_hostname(hostinfo) ELSE NULL
            info ==
                [ expanded_ip      |-> NULL,
                  expanded_network |-> NULL,
                  network          |-> inet_ntop4(network),
                  broadcast        |-> inet_ntop4(broadcast),
                  netmask          |-> inet_ntop4(netmask),
                  hostname         |-> hostname,
                  prefix           |-> prefix,
                  hostmin          |-> IF prefix < 32
                                       THEN inet_ntop4(ipv4_minhost(network, prefix))
                                       ELSE inet_ntop4(network),
                  hostmax          |-> IF prefix < 32
                                       THEN inet_ntop4(ipv4_maxhost(network, netmask, prefix))
                                       ELSE inet_ntop4(network),
                  type             |-> ipv4_net_to_type(network) ]
        IN  IF showHostname /\ hostname = NULL
            THEN [ ret |-> -1, info |-> info, ipStr |-> ipStr ]
            ELSE [ ret |-> 0, info |-> info, ipStr |-> ipStr ]

\* ------------------------------------------------------------------------
\* IPv6
\* ------------------------------------------------------------------------

\* inet_pton(AF_INET6, ...): 1 when the text is eight groups, each at most ffff
inet_pton6_ok(str) ==
    /\ Len(str) = 8
    /\ \A i \in 1..8 : str[i] \in 0..65535

\* the 16 bytes inet_pton stores: each group high byte first
inet_pton6(str) ==
    [ i \in 1..16 |-> IF i % 2 = 1 THEN str[(i + 1) \div 2] \div 256
                                   ELSE str[i \div 2] % 256 ]

\* inet_ntop(AF_INET6, ...): the eight groups of the 16 bytes
inet_ntop6(addr) == [ g \in 1..8 |-> addr[2 * g - 1] * 256 + addr[2 * g] ]

\* char *expand_ipv6(struct in6_addr *ip6): every byte as two hex digits,
\* the bytes in pairs; a group is its four digits
expand_ipv6(ip6) ==
    [ g \in 1..8 |-> << ip6[2 * g - 1] \div 16, ip6[2 * g - 1] % 16,
                        ip6[2 * g] \div 16, ip6[2 * g] % 16 >> ]

\* the mask bytes with a partial byte filled from the low end
ipv6_mask_low_fill(prefix) ==
    [ j \in 1..16 |->
        LET i == prefix - 8 * (j - 1)
        IN  IF i <= 0 THEN 0
            ELSE IF i >= 8 THEN 255
            ELSE Pow2(i) - 1 ]

\* the bytes ipv6_prefix_to_mask stores through `mask`, for 1 <= prefix <= 128:
\* byte j is set while the remaining count i is positive
ipv6_mask_bytes(prefix) ==
    [ j \in 1..16 |->
        LET i == prefix - 8 * (j - 1)
        IN  IF i <= 0 THEN 0
            ELSE IF i >= 8 THEN 255
            ELSE (255 * Pow2(8 - i)) % 256 ]

\* char *ipv6_prefix_to_mask(unsigned prefix, struct in6_addr *mask): the
\* string returned (NULL on error)
ipv6_prefix_to_mask(prefix) ==
    IF prefix = 0 \/ prefix > 128 THEN NULL
    ELSE inet_ntop6(ipv6_mask_bytes(prefix))

\* memcmp(net->s6_addr, pattern, n) == 0
memcmp_eq(net, pattern, n) == \A i \in 1..n : net[i] = pattern[i]

\* And on 16-bit words, by bytes
And16(a, b) == And8(a \div 256, b \div 256) * 256 + And8(a % 256, b % 256)

\* char *ipv6_net_to_type(struct in6_addr *net)
ipv6_net_to_type(net) ==
    LET word1 == net[1] * 256 + net[2]
        word2 == net[3] * 256 + net[4]
    IN  IF memcmp_eq(net, << 0,0,0,0, 0,0,0,0, 0,0,0,0, 0,0,0,1 >>, 16)
        THEN "Loopback Address"
        ELSE IF memcmp_eq(net, << 0,0,0,0, 0,0,0,0, 0,0,0,0, 0,0,0,0 >>, 16)
        THEN "Unspecified Address"
        ELSE IF memcmp_eq(net, << 0,0,0,0, 0,0,0,0, 0,0,255,255 >>, 12)
        THEN "IPv4-mapped Address"
        ELSE IF memcmp_eq(net, << 0,100,255,155, 0,0,0,0, 0,0,0,0 >>, 12)
        THEN "IPv4-IPv6 Translat."
        ELSE IF memcmp_eq(net, << 16,0,0,0, 0,0,0,0, 0,0,0,0 >>, 12)
        THEN "Discard-Only Address Block"
        ELSE IF And16(word1, 65534) = 8193 /\ word2 = 0
        THEN "IETF Protocol Assignments"
        ELSE IF And16(word1, 57344) = 8192 THEN "Global Unicast"
        ELSE IF And8(net[1], 254) = 252 THEN "Unique Local Unicast"
        ELSE IF And16(word1, 65472) = 65152 THEN "Link-Scoped Unicast"
        ELSE IF And8(net[1], 255) = 255 THEN "Multicast"
        ELSE IF And16(word1, 65534) = 8194 THEN "6to4"
        ELSE "Reserved"

\* the host-max bytes of get_ipv6_info: network.s6_addr[i] |= ~mask.s6_addr[i],
\* the int result stored back into an unsigned char
ipv6_hostmax(network, mask) ==
    [ i \in 1..16 |-> Or8(network[i], Not8(mask[i])) ]

\* int get_ipv6_info(ipStr, prefix, info, beSilent, showHostname): the
\* return value and the record it leaves
get_ipv6_info(ipStr, prefix0, showHostname, hostinfo) ==
    IF ~ inet_pton6_ok(ipStr) THEN [ ret |-> -1, info |-> InfoZero ]
    ELSE
    LET ip6   == inet_pton6(ipStr)
        info1 == [ InfoZero EXCEPT !.expanded_ip = expand_ipv6(ip6) ]
    IN  IF prefix0 = 0 \/ prefix0 > 128 THEN [ ret |-> -1, info |-> info1 ]
        ELSE
        LET prefix   == IF prefix0 < 0 THEN 128 ELSE prefix0
            netmask  == ipv6_prefix_to_mask(prefix)
            info2    == [ info1 EXCEPT !.prefix = prefix, !.netmask = netmask ]
        IN  IF netmask = NULL THEN [ ret |-> -1, info |-> info2 ]
            ELSE
            LET mask     == ipv6_mask_bytes(prefix)
                network  == [ i \in 1..16 |-> And8(ip6[i], mask[i]) ]
                hostname == IF showHostname THEN get_hostname(hostinfo) ELSE NULL
                info ==
                    [ expanded_ip      |-> expand_ipv6(ip6),
                      expanded_network |-> expand_ipv6(network),
                      network          |-> inet_ntop6(network),
                      broadcast        |-> NULL,
                      netmask          |-> netmask,
                      hostname         |-> hostname,
                      prefix           |-> prefix,
                      hostmin          |-> inet_ntop6(network),
                      hostmax          |-> IF prefix < 128
                                           THEN inet_ntop6(ipv6_hostmax(network, mask))
                                           ELSE inet_ntop6(network),
                      type             |-> ipv6_net_to_type(network) ]
            IN  IF showHostname /\ hostname = NULL
                THEN [ ret |-> -1, info |-> info ]
                ELSE [ ret |-> 0, info |-> info ]

\* ------------------------------------------------------------------------
\* The command line
\* ------------------------------------------------------------------------

\* The text after '/': kind "none" (no '/'), "num" (strtol reads all of it
\* as the number val, which fits an int), "huge" (a number that does not fit
\* an int), "junk" (not a number), "dotted" (contains a '.': mask holds the
\* dotted components).
NoPrefixStr == [ kind |-> "none", val |-> 0, mask |-> NULL ]

NumPrefixStr(n) == [ kind |-> "num", val |-> n, mask |-> NULL ]

DottedPrefixStr(m) == [ kind |-> "dotted", val |-> 0, mask |-> m ]

\* int safe_atoi(const char *s, int *ret_i): the return value and *ret_i
\* (old when the call fails); -22 is -EINVAL, -34 is -ERANGE
safe_atoi(s, old) ==
    IF s.kind = "num" THEN [ ret |-> 0, i |-> s.val ]
    ELSE IF s.kind = "huge" THEN [ ret |-> -34, i |-> old ]
    ELSE [ ret |-> -22, i |-> old ]

\* the options of optionsTable that main reads
NoOpts ==
    [ doCheck |-> FALSE, doInfo |-> FALSE, showBroadcast |-> FALSE,
      showHostname |-> FALSE, showNetmask |-> FALSE, showNetwork |-> FALSE,
      showPrefix |-> FALSE, showHostMin |-> FALSE, showHostMax |-> FALSE,
      showAddrSpace |-> FALSE ]

\* what main has printed on stdout; NULL, -1 and NoType stand for a line
\* that was not printed
NoOutput ==
    [ full_address |-> NULL, address |-> NULL, netmask |-> NULL,
      prefix |-> -1, full_network |-> NULL, network |-> NULL,
      addrspace |-> NoType, broadcast |-> NULL, hostmin |-> NULL,
      hostmax |-> NULL, hosts |-> NULL, hosts6 |-> -1, hosts6_symbolic |-> FALSE,
      hostname |-> NULL ]

\* ------------------------------------------------------------------------
\* Inputs of the model
\* ------------------------------------------------------------------------

\* dotted-quad address strings, one or more per branch of ipv4_net_to_type
V4Valid ==
    { << 192, 168, 1, 5 >>, << 10, 0, 0, 1 >>, << 198, 51, 100, 7 >>,
      << 192, 0, 2, 5 >>, << 203, 0, 113, 9 >>, << 255, 255, 255, 255 >>,
      << 0, 0, 0, 0 >>, << 172, 16, 5, 4 >>, << 127, 0, 0, 1 >>,
      << 224, 0, 0, 251 >>, << 8, 8, 8, 8 >>, << 192, 51, 100, 1 >>,
      << 240, 1, 2, 3 >>, << 100, 64, 0, 1 >>, << 169, 254, 1, 1 >>,
      << 192, 18, 0, 1 >>, << 192, 88, 99, 1 >>, << 192, 52, 193, 1 >>,
      << 192, 0, 0, 9 >>, << 129, 255, 255, 255 >>, << 1, 0, 0, 0 >> }

\* shorthand and malformed IPv4 strings
V4Other ==
    { << 172 >>, << 172, 16 >>, << 10, 1, 2 >>, << 256, 1, 1, 1 >>,
      << 1, 2, 3, 4, 5 >> }

V4Few == { << 192, 168, 1, 5 >>, << 10, 0, 0, 1 >>, << 172 >> }

\* netmask strings that are no contiguous run of leading 1 bits, or no address
V4BadMasks ==
    { << 255, 0, 255, 0 >>, << 0, 255, 0, 0 >>, << 0, 0, 0, 1 >>,
      << 127, 255, 255, 255 >>, << 255, 255, 255, 253 >>, << 0, 0, 255, 0 >>,
      << 255, 255, 1, 0 >>, << 255, 255, 0 >>, << 255, 255, 256, 0 >> }

\* the netmask strings of all prefixes, as ipcalc prints them
V4PrefixMasks == { inet_ntop4(prefix2mask(p)) : p \in 0..32 }

V4PrefixStrs ==
    { NoPrefixStr,
      [ kind |-> "junk", val |-> 0, mask |-> NULL ],
      [ kind |-> "huge", val |-> 0, mask |-> NULL ] }
    \cup { NumPrefixStr(n) : n \in -2..MaxPrefixIn4 }
    \cup { DottedPrefixStr(m) : m \in V4PrefixMasks \cup V4BadMasks }

V4FewPrefixStrs ==
    { NoPrefixStr, NumPrefixStr(0), NumPrefixStr(24), NumPrefixStr(31),
      NumPrefixStr(32), DottedPrefixStr(<< 255, 255, 0, 0 >>) }

V4NetmaskArgs ==
    { << >>, << << 255, 255, 255, 0 >> >>, << << 255, 0, 255, 0 >> >>,
      << << 0, 255, 0, 0 >> >>, << << 0, 0, 0, 0 >> >>,
      << << 255, 255, 0, 0 >>, << 255, 0, 0, 0 >> >> }

\* IPv6 address strings as their eight groups
V6Valid ==
    { << 8193, 3512, 0, 0, 0, 0, 0, 1 >>,          \* 2001:db8::1
      << 0, 0, 0, 0, 0, 0, 0, 1 >>,                \* ::1
      << 0, 0, 0, 0, 0, 0, 0, 0 >>,                \* ::
      << 0, 0, 0, 0, 0, 65535, 258, 772 >>,        \* ::ffff:1.2.3.4
      << 100, 65435, 0, 0, 0, 0, 0, 5 >>,          \* 64:ff9b::5
      << 256, 0, 0, 0, 0, 0, 0, 7 >>,              \* 100::7
      << 4096, 0, 0, 0, 0, 0, 0, 7 >>,             \* 1000::7
      << 8193, 0, 0, 0, 0, 0, 0, 9 >>,             \* 2001::9
      << 8194, 49152, 513, 0, 0, 0, 0, 1 >>,       \* 2002:c000:201::1
      << 64512, 0, 0, 0, 0, 0, 43981, 1 >>,        \* fc00::abcd:1
      << 65152, 0, 0, 0, 513, 46079, 65054, 1 >>,  \* fe80::201:b3ff:fe1e:1
      << 65282, 0, 0, 0, 0, 0, 0, 1 >>,            \* ff02::1
      << 16384, 4660, 22136, 39612, 57005, 48879, 51966, 65535 >> }

V6Other == { << 8193, 3512, 1 >>, << 8193, 65536, 0, 0, 0, 0, 0, 1 >> }

V6Few == { << 8193, 3512, 0, 0, 0, 0, 0, 1 >>, << 65152, 0, 0, 0, 513, 46079, 65054, 1 >> }

V6PrefixStrs ==
    { NoPrefixStr,
      [ kind |-> "junk", val |-> 0, mask |-> NULL ],
      [ kind |-> "huge", val |-> 0, mask |-> NULL ],
      DottedPrefixStr(<< 255, 255, 0, 0 >>) }
    \cup { NumPrefixStr(n) : n \in -2..MaxPrefixIn6 }

V6FewPrefixStrs == { NoPrefixStr, NumPrefixStr(0), NumPrefixStr(64), NumPrefixStr(128) }

\* the option combinations tried
Options ==
    { NoOpts,
      [ NoOpts EXCEPT !.showBroadcast = TRUE, !.showNetwork = TRUE, !.showPrefix = TRUE ],
      [ NoOpts EXCEPT !.showNetmask = TRUE ],
      [ NoOpts EXCEPT !.showHostname = TRUE ],
      [ NoOpts EXCEPT !.doCheck = TRUE ],
      [ NoOpts EXCEPT !.doInfo = TRUE, !.showHostname = TRUE ],
      [ NoOpts EXCEPT !.showHostMin = TRUE, !.showHostMax = TRUE, !.showAddrSpace = TRUE ] }

\* what gethostbyaddr may answer: nothing, or the name "Host"
HostAnswers == { NULL, << 72, 111, 115, 116 >> }

\* ------------------------------------------------------------------------
\* State
\* ------------------------------------------------------------------------

VARIABLES
    ipStr,        \* argv: the address text before '/': [colon, parts]
    prefixStr,    \* argv: the text after '/'
    args,         \* the positional arguments poptGetArg has not handed out yet
    opts,         \* the option flags
    pc,           \* where main is
    familyIPv6,   \* main's familyIPv6
    prefix,       \* main's prefix
    netmaskStr,   \* main's netmaskStr
    parsedStr,    \* the string the callee handed to inet_pton, NULL before the call
    info,         \* main's info
    r,            \* main's r
    doInfo,       \* main's doInfo
    rc,           \* main's exit status, -1 while it runs
    out           \* what was printed on stdout

vars == << ipStr, prefixStr, args, opts, pc, familyIPv6, prefix, netmaskStr, parsedStr,
           info, r, doInfo, rc, out >>

\* `ip_info_st info;` before get_ipv4_info or get_ipv6_info has cleared it:
\* indeterminate, and never read in that state
InfoIndeterminate ==
    [ expanded_ip      |-> << -1 >>,
      expanded_network |-> << -1 >>,
      network          |-> << -1 >>,
      broadcast        |-> << -1 >>,
      netmask          |-> << -1 >>,
      hostname         |-> << -1 >>,
      prefix           |-> -1,
      hostmin          |-> << -1 >>,
      hostmax          |-> << -1 >>,
      type             |-> "?" ]

\* the command lines tried
CommandLines ==
    { [ ip |-> [ colon |-> FALSE, parts |-> a ], pfx |-> p, args |-> << >>, opts |-> NoOpts ] :
        a \in V4Valid \cup V4Other, p \in V4PrefixStrs }
    \cup
    { [ ip |-> [ colon |-> FALSE, parts |-> a ], pfx |-> p, args |-> n, opts |-> o ] :
        a \in V4Few, p \in V4FewPrefixStrs, n \in V4NetmaskArgs, o \in Options }
    \cup
    { [ ip |-> [ colon |-> TRUE, parts |-> a ], pfx |-> p, args |-> << >>, opts |-> NoOpts ] :
        a \in V6Valid \cup V6Other, p \in V6PrefixStrs }
    \cup
    { [ ip |-> [ colon |-> TRUE, parts |-> a ], pfx |-> p, args |-> << >>, opts |-> o ] :
        a \in V6Few, p \in V6FewPrefixStrs, o \in Options }

\* main's locals as declared (lines 680-690), before the first statement
Init ==
    /\ \E c \in CommandLines :
        /\ ipStr = c.ip
        /\ prefixStr = c.pfx
        /\ args = c.args
        /\ opts = c.opts
    /\ pc = "start"
    /\ familyIPv6 = FALSE
    /\ prefix = -1
    /\ netmaskStr = NULL
    /\ parsedStr = NULL
    /\ info = InfoIndeterminate
    /\ r = 0
    /\ doInfo = opts.doInfo
    /\ rc = -1
    /\ out = NoOutput

\* `return status;` from main
Exit(status) ==
    /\ pc' = "exit"
    /\ rc' = status

\* ------------------------------------------------------------------------
\* main
\* ------------------------------------------------------------------------

\* the prefix test of main with the IPv6 limit applied to both families
PrefixOutOfRange_one_limit(fam6, pfx) == pfx < 0 \/ pfx > 128

\* lines 771-772: the prefix main refuses
PrefixOutOfRange(fam6, pfx) ==
    pfx < 0 \/ ((fam6 /\ pfx > 128) \/ (~ fam6 /\ pfx > 32))

\* lines 743-778: the family is read off the ':' and the text after '/' is
\* turned into a prefix
ParsePrefix ==
    /\ pc = "start"
    /\ LET fam6 == ipStr.colon
           byMask == ~ fam6 /\ prefixStr.kind = "dotted"
           conv == safe_atoi(prefixStr, prefix)
           pfx == IF prefixStr.kind = "none" THEN prefix
                  ELSE IF byMask THEN ipv4_mask_to_int(prefixStr.mask)
                  ELSE conv.i
           rr == IF prefixStr.kind = "none" \/ byMask THEN r ELSE conv.ret
       IN  /\ familyIPv6' = fam6
           /\ prefix' = pfx
           /\ r' = rr
           /\ IF prefixStr.kind # "none" /\ rr # 0 THEN Exit(1)
              ELSE IF prefixStr.kind # "none" /\ PrefixOutOfRange(fam6, pfx) THEN Exit(1)
              ELSE pc' = "parsed" /\ rc' = rc
    /\ UNCHANGED << parsedStr, ipStr, prefixStr, args, opts, netmaskStr, info, doInfo, out >>

\* line 781: r = get_ipv6_info(ipStr, prefix, &info, beSilent, showHostname)
CallGetIPv6Info ==
    /\ pc = "parsed"
    /\ familyIPv6
    /\ \E hostinfo \in (IF opts.showHostname THEN HostAnswers ELSE { NULL }) :
        LET res == get_ipv6_info(ipStr.parts, prefix, opts.showHostname, hostinfo)
        IN  /\ r' = res.ret
            /\ info' = res.info
            /\ parsedStr' = ipStr.parts
    /\ pc' = "called"
    /\ UNCHANGED << ipStr, prefixStr, args, opts, familyIPv6, prefix, netmaskStr,
                    doInfo, rc, out >>

\* lines 783-811: the netmask argument is fetched and turned into a prefix
ResolveNetmask ==
    /\ pc = "parsed"
    /\ ~ familyIPv6
    /\ LET wanted == opts.showBroadcast \/ opts.showNetwork \/ opts.showPrefix
           got == IF wanted /\ Len(args) > 0 THEN Head(args) ELSE NULL
           left == IF wanted /\ Len(args) > 0 THEN Tail(args) ELSE args
           byMask == prefix = -1 /\ got # NULL
           conv == IF byMask THEN ipv4_mask_to_int(got) ELSE prefix
       IN  /\ netmaskStr' = got
           /\ args' = left
           /\ IF wanted /\ got = NULL /\ prefix < 0
              THEN prefix' = prefix /\ Exit(1)
              ELSE IF wanted /\ got # NULL /\ prefix >= 0
              THEN prefix' = prefix /\ Exit(1)
              ELSE /\ prefix' = conv
                   /\ IF byMask /\ conv < 0 THEN Exit(1)
                      ELSE pc' = "resolved" /\ rc' = rc
    /\ UNCHANGED << parsedStr, ipStr, prefixStr, opts, familyIPv6, info, r, doInfo, out >>

\* line 812: r = get_ipv4_info(ipStr, prefix, &info, beSilent, showHostname)
CallGetIPv4Info ==
    /\ pc = "resolved"
    /\ \E hostinfo \in (IF opts.showHostname THEN HostAnswers ELSE { NULL }) :
        LET res == get_ipv4_info(ipStr.parts, prefix, opts.showHostname, hostinfo)
        IN  /\ r' = res.ret
            /\ info' = res.info
            /\ parsedStr' = res.ipStr
    /\ pc' = "called"
    /\ UNCHANGED << ipStr, prefixStr, args, opts, familyIPv6, prefix, netmaskStr,
                    doInfo, rc, out >>

\* lines 815-842: the result is checked, a left-over argument refused, and
\* "print information" chosen when no option asks for anything
CheckResult ==
    /\ pc = "called"
    /\ IF r < 0 THEN Exit(1) /\ doInfo' = doInfo
       ELSE IF Len(args) > 0 THEN Exit(1) /\ doInfo' = doInfo
       ELSE IF opts.doCheck THEN Exit(0) /\ doInfo' = doInfo
       ELSE /\ doInfo' = IF ~ ( opts.showNetmask \/ opts.showPrefix \/ opts.showBroadcast
                                \/ opts.showNetwork \/ opts.showHostMin \/ opts.showHostMax
                                \/ opts.showHostname \/ doInfo \/ opts.showAddrSpace )
                         THEN TRUE ELSE doInfo
            /\ pc' = "display"
            /\ rc' = rc
    /\ args' = IF r >= 0 /\ Len(args) > 0 THEN Tail(args) ELSE args
    /\ UNCHANGED << parsedStr, ipStr, prefixStr, opts, familyIPv6, prefix, netmaskStr, info, r, out >>

\* lines 872-875: the value of `hosts`, given the value sh of the shift
ipv4_hosts(pfx, sh) == IF pfx >= 31 THEN sh ELSE Sub32(sh, Two32)

\* what reading a released string yields: bytes the allocator left there
FreedText == << -1 >>

\* lines 842 and 848: ipStr is the pointer poptGetArg returned (line 735),
\* and it is printed after poptFreeContext(optCon).  A popt that hands out
\* pointers into argv leaves the text in place; a popt that hands out
\* copies releases them in poptFreeContext, so the read is of freed
\* storage: the behaviour is undefined, and a build prints the text still
\* there or whatever the allocator put in its place.
ipStrAfterFree(str) == { str, FreedText }

\* lines 842-891: the context is released and the information block printed
DisplayInfo ==
    /\ pc = "display"
    /\ doInfo
    /\ \E shown \in ipStrAfterFree(ipStr.parts) :
       LET head == [ NoOutput EXCEPT !.full_address = info.expanded_ip,
                                     !.address = shown ]
       IN  IF (familyIPv6 /\ info.prefix # 128) \/ (~ familyIPv6 /\ info.prefix # 32)
           THEN LET net == [ head EXCEPT !.netmask = info.netmask,
                                         !.prefix = info.prefix,
                                         !.full_network = info.expanded_network,
                                         !.network = info.network,
                                         !.addrspace = info.type,
                                         !.broadcast = info.broadcast,
                                         !.hostmin = info.hostmin,
                                         !.hostmax = info.hostmax ]
                IN  IF ~ familyIPv6
                    THEN \E sh \in Shl1Outcomes(32 - info.prefix) :
                            out' = [ net EXCEPT !.hosts = ipv4_hosts(info.prefix, sh) ]
                    ELSE out' = [ net EXCEPT !.hosts6 = 128 - info.prefix,
                                             !.hosts6_symbolic = (info.prefix < 65) ]
           ELSE out' = [ head EXCEPT !.addrspace = info.type ]
    /\ Exit(0)
    /\ UNCHANGED << parsedStr, ipStr, prefixStr, args, opts, familyIPv6, prefix, netmaskStr,
                    info, r, doInfo >>

\* lines 892-925: the NAME=value lines
DisplayFields ==
    /\ pc = "display"
    /\ ~ doInfo
    /\ out' = [ NoOutput EXCEPT
                  !.netmask   = IF opts.showNetmask THEN info.netmask ELSE NULL,
                  !.prefix    = IF opts.showPrefix THEN info.prefix ELSE -1,
                  !.broadcast = IF opts.showBroadcast /\ ~ familyIPv6
                                THEN info.broadcast ELSE NULL,
                  !.network   = IF opts.showNetwork THEN info.network ELSE NULL,
                  !.hostmin   = IF opts.showHostMin THEN info.hostmin ELSE NULL,
                  !.hostmax   = IF opts.showHostMax THEN info.hostmax ELSE NULL,
                  !.addrspace = IF opts.showAddrSpace THEN info.type ELSE NoType,
                  !.hostname  = IF opts.showHostname THEN info.hostname ELSE NULL ]
    /\ Exit(0)
    /\ UNCHANGED << parsedStr, ipStr, prefixStr, args, opts, familyIPv6, prefix, netmaskStr,
                    info, r, doInfo >>

Next ==
    \/ ParsePrefix
    \/ CallGetIPv6Info
    \/ ResolveNetmask
    \/ CallGetIPv4Info
    \/ CheckResult
    \/ DisplayInfo
    \/ DisplayFields

Spec == Init /\ [][Next]_vars

\* ------------------------------------------------------------------------
\* Reference notions used by the properties
\* ------------------------------------------------------------------------

\* get_ipv4_info or get_ipv6_info has been called
Called == info # InfoIndeterminate

\* the call computed a network
NetworkComputed == Called /\ info.network # NULL

\* the number of host bits of a prefix p that lie in byte j (bytes counted
\* from 1, most significant first)
HostBits(p, j) ==
    IF 8 * j - p <= 0 THEN 0 ELSE IF 8 * j - p >= 8 THEN 8 ELSE 8 * j - p

\* byte j of the mask whose top p bits, and no others, are set
TopBitsByte(p, j) == 256 - Pow2(HostBits(p, j))

\* byte j of a AND mask(p): the host bits of a[j] cleared
ClearHostBits(a, p, j) == a[j] - (a[j] % Pow2(HostBits(p, j)))

\* byte j of n OR NOT mask(p), for n with its host bits clear
SetHostBits(n, p, j) == n[j] + Pow2(HostBits(p, j)) - 1

\* the IPv4 address the command line names: the components given, zeros after
GivenQuad == [ j \in 1..4 |-> IF j <= Len(ipStr.parts) THEN ipStr.parts[j] ELSE 0 ]

\* the 16 bytes of an IPv6 text of eight groups
BytesOfGroups(g) ==
    [ j \in 1..16 |-> IF j % 2 = 1 THEN g[(j + 1) \div 2] \div 256 ELSE g[j \div 2] % 256 ]

GroupsOfBytes(b) == [ g \in 1..8 |-> 256 * b[2 * g - 1] + b[2 * g] ]

\* x = y + 1 on dotted quads read as 32-bit numbers
IsSucc(x, y) ==
    \/ Lo16(y) < 65535 /\ Hi16(x) = Hi16(y) /\ Lo16(x) = Lo16(y) + 1
    \/ Lo16(y) = 65535 /\ Hi16(y) < 65535 /\ Hi16(x) = Hi16(y) + 1 /\ Lo16(x) = 0

\* x <= y on dotted quads read as 32-bit numbers
Leq4(x, y) == Hi16(x) < Hi16(y) \/ (Hi16(x) = Hi16(y) /\ Lo16(x) <= Lo16(y))

\* ------------------------------------------------------------------------
\* Properties
\* ------------------------------------------------------------------------

\* C1: whenever a network was computed, the prefix used is the one given,
\* the netmask has exactly the top `prefix` bits set, the network is the
\* address AND that netmask (IPv4, prefix 0..32; IPv6, prefix 1..128), and
\* for IPv4 the broadcast is the network OR NOT the netmask.
C1_NetworkAndBroadcast ==
    NetworkComputed =>
        /\ prefixStr.kind = "num" => info.prefix = prefixStr.val
        /\ IF ~ familyIPv6
           THEN /\ info.prefix \in 0..32
                /\ info.netmask = [ j \in 1..4 |-> TopBitsByte(info.prefix, j) ]
                /\ info.network = [ j \in 1..4 |-> ClearHostBits(GivenQuad, info.prefix, j) ]
                /\ info.broadcast = [ j \in 1..4 |-> SetHostBits(info.network, info.prefix, j) ]
           ELSE /\ info.prefix \in 1..128
                /\ info.netmask = GroupsOfBytes([ j \in 1..16 |-> TopBitsByte(info.prefix, j) ])
                /\ info.network =
                     GroupsOfBytes([ j \in 1..16 |->
                                       ClearHostBits(BytesOfGroups(ipStr.parts), info.prefix, j) ])

\* C1 witness: 192.168.1.5/23 gave network 192.168.0.0 and broadcast 192.168.1.255
C1_Witness ==
    /\ NetworkComputed
    /\ ~ familyIPv6
    /\ ipStr.parts = << 192, 168, 1, 5 >>
    /\ prefixStr = NumPrefixStr(23)
    /\ info.network = << 192, 168, 0, 0 >>
    /\ info.broadcast = << 192, 168, 1, 255 >>

\* C2: for IPv4, with prefix <= 30 hostMin is network + 1 and hostMax is
\* broadcast - 1; with prefix 31 or 32 hostMin is the network and hostMax the
\* broadcast; in every case network <= hostMin <= hostMax <= broadcast.
C2_HostRange4 ==
    (NetworkComputed /\ ~ familyIPv6) =>
        /\ info.prefix <= 30 =>
              /\ IsSucc(info.hostmin, info.network)
              /\ IsSucc(info.broadcast, info.hostmax)
        /\ info.prefix \in { 31, 32 } =>
              /\ info.hostmin = info.network
              /\ info.hostmax = info.broadcast
        /\ Leq4(info.network, info.hostmin)
        /\ Leq4(info.hostmin, info.hostmax)
        /\ Leq4(info.hostmax, info.broadcast)

\* C2 witness: 192.168.1.5/24 gave the hosts 192.168.1.1 .. 192.168.1.254
C2_Witness ==
    /\ NetworkComputed
    /\ ~ familyIPv6
    /\ info.prefix = 24
    /\ info.network = << 192, 168, 1, 0 >>
    /\ info.hostmin = << 192, 168, 1, 1 >>
    /\ info.hostmax = << 192, 168, 1, 254 >>

\* the text after '/' is the dotted netmask that prefix2mask gives for p
IsMaskOfPrefix(p) ==
    /\ ~ ipStr.colon
    /\ prefixStr = DottedPrefixStr(inet_ntop4(prefix2mask(p)))

\* C3 as claimed: for every p in 0..32, p = 0 included, the netmask of
\* prefix2mask(p) is converted back by ipv4_mask_to_int to exactly p.
C3_RoundTripFromZero ==
    \A p \in 0..32 : (pc # "start" /\ IsMaskOfPrefix(p)) => prefix = p

\* C3 amended: for every p in 1..32 the netmask of prefix2mask(p) is
\* converted back by ipv4_mask_to_int to exactly p; the all-zero netmask of
\* p = 0 is converted to the error value -1 and the command line refused.
C3_RoundTrip ==
    /\ \A p \in 1..32 : (pc # "start" /\ IsMaskOfPrefix(p)) => prefix = p
    /\ (pc # "start" /\ IsMaskOfPrefix(0)) => (prefix = -1 /\ pc = "exit" /\ rc = 1)

\* C3 witness: 255.255.254.0 was converted to 23
C3_Witness ==
    /\ pc # "start"
    /\ IsMaskOfPrefix(23)
    /\ prefixStr.mask = << 255, 255, 254, 0 >>
    /\ prefix = 23

\* bit k (0 the least significant) of a dotted quad read as a 32-bit number
BitOf(q, k) == (q[4 - (k \div 8)] \div Pow2(k % 8)) % 2

\* some 0 bit is more significant than some 1 bit
ZeroAboveOne(q) == \E hi, lo \in 0..31 : hi > lo /\ BitOf(q, hi) = 0 /\ BitOf(q, lo) = 1

\* C4: a netmask in which some 0 bit is more significant than some 1 bit is
\* never converted to a prefix: the conversion gives the error value and the
\* command line is refused, for a netmask after '/' and for a netmask argument.
C4_NonContiguousMaskRefused ==
    /\ ( /\ pc # "start"
         /\ ~ ipStr.colon
         /\ prefixStr.kind = "dotted"
         /\ inet_pton4_ok(prefixStr.mask)
         /\ ZeroAboveOne(prefixStr.mask) )
       => (prefix = -1 /\ pc = "exit" /\ rc = 1)
    /\ ( /\ netmaskStr # NULL
         /\ inet_pton4_ok(netmaskStr)
         /\ ZeroAboveOne(netmaskStr) )
       => (pc = "exit" /\ rc = 1 /\ (prefixStr.kind = "none" => prefix < 0))

\* the label the documented IPv4 table gives a network, first match first
DocumentedIPv4Label(n) ==
    IF n[1] = 0 THEN "This host on this network"
    ELSE IF n[1] = 10 THEN "Private Use"
    ELSE IF n[1] = 100 /\ n[2] \in 64..127 THEN "Shared Address Space"
    ELSE IF n[1] = 127 THEN "Loopback"
    ELSE IF n[1] = 169 /\ n[2] = 254 THEN "Link Local"
    ELSE IF n[1] = 172 /\ n[2] \in 16..31 THEN "Private Use"
    ELSE IF n[1] = 192 /\ n[2] = 0 /\ n[3] = 0 THEN "IETF Protocol Assignments"
    ELSE IF n[1] = 192 /\ n[2] = 0 /\ n[3] = 2 THEN "Documentation (TEST-NET-1)"
    ELSE IF n[1] = 198 /\ n[2] = 51 /\ n[3] = 100 THEN "Documentation (TEST-NET-2)"
    ELSE IF n[1] = 203 /\ n[2] = 0 /\ n[3] = 113 THEN "Documentation (TEST-NET-3)"
    ELSE IF n[1] = 192 /\ n[2] = 88 /\ n[3] = 99 THEN "6 to 4 Relay Anycast (Deprecated)"
    ELSE IF n[1] = 192 /\ n[2] = 52 /\ n[3] = 193 THEN "AMT"
    ELSE IF n[1] = 192 /\ n[2] = 168 THEN "Private Use"
    ELSE IF n = << 255, 255, 255, 255 >> THEN "Limited Broadcast"
    ELSE IF n[1] = 192 /\ n[2] \in { 18, 19 } THEN "Private Use"
    ELSE IF n[1] \in 224..239 THEN "Multicast"
    ELSE IF n[1] \in 240..255 THEN "Reserved"
    ELSE "Internet or Reserved for Future use"

\* C5: every IPv4 network gets exactly the non-empty label of the documented
\* table: 192.0.2.0/24, 198.51.100.0/24 and 203.0.113.0/24 the three
\* Documentation labels, 255.255.255.255 "Limited Broadcast", and only a
\* network in no listed range "Internet or Reserved for Future use".
C5_IPv4Label ==
    (NetworkComputed /\ ~ familyIPv6) =>
        /\ info.type # NoType
        /\ info.type = DocumentedIPv4Label(info.network)

\* the label the documented IPv6 table gives a network, first match first
DocumentedIPv6Label(g) ==
    IF g = << 0, 0, 0, 0, 0, 0, 0, 1 >> THEN "Loopback Address"
    ELSE IF g = << 0, 0, 0, 0, 0, 0, 0, 0 >> THEN "Unspecified Address"
    ELSE IF SubSeq(g, 1, 6) = << 0, 0, 0, 0, 0, 65535 >> THEN "IPv4-mapped Address"
    ELSE IF SubSeq(g, 1, 6) = << 100, 65435, 0, 0, 0, 0 >> THEN "IPv4-IPv6 Translat."
    ELSE IF SubSeq(g, 1, 4) = << 256, 0, 0, 0 >> THEN "Discard-Only Address Block"
    ELSE IF g[1] \in 8192..8703 /\ g[2] = 0 THEN "IETF Protocol Assignments"
    ELSE IF g[1] \in 8192..16383 THEN "Global Unicast"
    ELSE IF g[1] \in 64512..65023 THEN "Unique Local Unicast"
    ELSE IF g[1] \in 65152..65215 THEN "Link-Scoped Unicast"
    ELSE IF g[1] \in 65280..65535 THEN "Multicast"
    ELSE "Reserved"

\* C6: every IPv6 network gets the label of the documented table: 100::/64
\* is the Discard-Only Address Block, 2001::/23 with a zero second group is
\* IETF Protocol Assignments before Global Unicast, and so on down to
\* "Reserved".
C6_IPv6Label ==
    (NetworkComputed /\ familyIPv6) =>
        info.type = DocumentedIPv6Label(info.network)

\* C7: for IPv6, prefix 1..128, hostMin is the network; hostMax is the
\* network OR NOT the mask over all 16 bytes, every byte within 0..255, when
\* prefix < 128, and the network when prefix = 128; no broadcast is stored.
C7_HostRange6 ==
    (NetworkComputed /\ familyIPv6) =>
        /\ info.prefix \in 1..128
        /\ info.hostmin = info.network
        /\ info.prefix < 128 =>
              info.hostmax =
                 GroupsOfBytes([ j \in 1..16 |->
                                   SetHostBits(BytesOfGroups(info.network), info.prefix, j) ])
        /\ info.prefix = 128 => info.hostmax = info.network
        /\ \A g \in 1..8 : info.hostmax[g] \in 0..65535
        /\ info.broadcast = NULL

\* C7 witness: 2001:db8::1/33 gave hostMax 2001:db8:7fff:ffff:ffff:ffff:ffff:ffff
C7_Witness ==
    /\ NetworkComputed
    /\ familyIPv6
    /\ info.prefix = 33
    /\ info.network = << 8193, 3512, 0, 0, 0, 0, 0, 0 >>
    /\ info.hostmin = << 8193, 3512, 0, 0, 0, 0, 0, 0 >>
    /\ info.hostmax = << 8193, 3512, 32767, 65535, 65535, 65535, 65535, 65535 >>

\* C8: when get_ipv4_info or get_ipv6_info fails the record is as zeroed on
\* entry; when it succeeds every field of the family is populated.
C8_AllOrNothing ==
    Called =>
        /\ r < 0 => info = InfoZero
        /\ r = 0 =>
              /\ info.netmask # NULL
              /\ info.network # NULL
              /\ info.hostmin # NULL
              /\ info.hostmax # NULL
              /\ info.type # NoType
              /\ (~ familyIPv6) => info.broadcast # NULL
              /\ familyIPv6 => (info.expanded_ip # NULL /\ info.expanded_network # NULL)
              /\ opts.showHostname => info.hostname # NULL

\* the text after '/' is the number n
ExplicitPrefix(n) == prefixStr = NumPrefixStr(n)

\* no netmask, network or host range has been computed
NothingComputed ==
    /\ info.netmask \in { NULL, InfoIndeterminate.netmask }
    /\ info.network \in { NULL, InfoIndeterminate.network }
    /\ info.hostmin \in { NULL, InfoIndeterminate.hostmin }
    /\ info.hostmax \in { NULL, InfoIndeterminate.hostmax }

\* one step of C9
C9_Step ==
    \* main's own test lets through exactly 0..32 for IPv4 and 0..128 for IPv6
    /\ (pc = "start" /\ prefixStr.kind = "num" /\ ~ ipStr.colon) =>
          /\ prefixStr.val \in 0..32 => (pc' = "parsed" /\ prefix' = prefixStr.val)
          /\ prefixStr.val \notin 0..32 => (pc' = "exit" /\ rc' = 1)
    /\ (pc = "start" /\ prefixStr.kind = "num" /\ ipStr.colon) =>
          /\ prefixStr.val \in 0..128 => (pc' = "parsed" /\ prefix' = prefixStr.val)
          /\ prefixStr.val \notin 0..128 => (pc' = "exit" /\ rc' = 1)
    \* an IPv4 prefix 0..32 with a well-formed address is computed with,
    \* prefix 0 giving the all-zero mask
    /\ (pc = "resolved" /\ prefixStr.kind = "num" /\ pc' = "called"
          /\ inet_pton4_ok(GivenQuad) /\ Len(ipStr.parts) <= 4) =>
          /\ info'.prefix = prefixStr.val
          /\ info'.network # NULL
          /\ prefixStr.val = 0 => info'.netmask = << 0, 0, 0, 0 >>
    \* get_ipv6_info computes with 1..128 and refuses 0
    /\ (pc = "parsed" /\ prefixStr.kind = "num" /\ ipStr.colon /\ pc' = "called"
          /\ inet_pton6_ok(ipStr.parts)) =>
          /\ prefixStr.val \in 1..128 =>
                (info'.prefix = prefixStr.val /\ info'.network # NULL)
          /\ prefixStr.val = 0 => r' = -1
    \* the refusal of IPv6 prefix 0 ends the run with an error
    /\ (pc = "called" /\ ipStr.colon /\ ExplicitPrefix(0)) => (pc' = "exit" /\ rc' = 1)
    \* a refused prefix reaches no mask or network computation
    /\ ( /\ prefixStr.kind = "num"
         /\ \/ ~ ipStr.colon /\ prefixStr.val \notin 0..32
            \/ ipStr.colon /\ prefixStr.val \notin 1..128 )
       => (NothingComputed /\ NothingComputed')

\* C9: an IPv4 command line is accepted for every explicit prefix 0..32
\* (0 giving the all-zero mask) and refused for every other one; an IPv6
\* command line is accepted for 1..128 and refused with an error for 0 and
\* every other one; a refused prefix never reaches the mask or network
\* computation.
C9_PrefixValidation == [][C9_Step]_vars

\* C9 witness: get_ipv6_info has refused prefix 0 before computing a mask, and
\* main has ended with status 1
C9_Witness ==
    /\ pc = "exit"
    /\ rc = 1
    /\ ipStr.colon
    /\ ExplicitPrefix(0)
    /\ Called
    /\ r = -1
    /\ info.netmask = NULL
    /\ info.network = NULL

\* 2^(32-p) - 2 for p <= 30 and 2^(32-p) for p = 31, 32, as a 32-bit word
UsableHosts(p) ==
    IF p = 0 THEN << 255, 255, 255, 254 >>
    ELSE IF p <= 16 THEN FromHL(Pow2(16 - p) - 1, 65534)
    ELSE IF p <= 30 THEN FromHL(0, Pow2(32 - p) - 2)
    ELSE FromHL(0, Pow2(32 - p))

\* C10: the host count displayed for an IPv4 prefix p is 2^(32-p) - 2 when
\* p <= 30 and 2^(32-p) when p is 31 or 32, at p = 0 too.
C10_HostCount ==
    out.hosts # NULL => out.hosts = UsableHosts(info.prefix)

\* an IPv4 command line whose address has fewer than four components
Shorthand == ~ ipStr.colon /\ Len(ipStr.parts) \in 1..3

\* C11 as claimed: every IPv4 address string with fewer than four components
\* is padded with ".0" to four components before it is parsed, and a string
\* of four components is parsed unchanged.
C11_ShorthandAlwaysPadded ==
    (Called /\ ~ familyIPv6) =>
        /\ Shorthand => parsedStr = GivenQuad
        /\ Len(ipStr.parts) = 4 => parsedStr = ipStr.parts

\* C11 amended: when a prefix or netmask is given (prefix >= 0 on entry to
\* get_ipv4_info) an IPv4 address string with fewer than four components is
\* padded with ".0" to exactly four components before it is parsed, and the
\* network is computed from the padded address; with no prefix and no netmask
\* it is parsed unchanged and refused as a bad address; a string of four
\* components is parsed unchanged.
C11_ShorthandPaddedWithPrefix ==
    (Called /\ ~ familyIPv6) =>
        /\ (Shorthand /\ prefix >= 0) =>
              /\ parsedStr = GivenQuad
              /\ Len(parsedStr) = 4
              /\ inet_pton4_ok(GivenQuad) =>
                    info.network = [ j \in 1..4 |-> ClearHostBits(GivenQuad, prefix, j) ]
        /\ (Shorthand /\ prefix < 0) =>
              /\ parsedStr = ipStr.parts
              /\ r = -1
              /\ info = InfoZero
        /\ Len(ipStr.parts) = 4 => parsedStr = ipStr.parts

\* C11 witness: 172/8 was parsed as 172.0.0.0 and gave the network 172.0.0.0
C11_Witness ==
    /\ Called
    /\ ipStr = [ colon |-> FALSE, parts |-> << 172 >> ]
    /\ prefixStr = NumPrefixStr(8)
    /\ parsedStr = << 172, 0, 0, 0 >>
    /\ info.network = << 172, 0, 0, 0 >>
    /\ info.prefix = 8

\* the classful netmask of a dotted quad
ClassfulNetmask(q) ==
    IF q[1] <= 127 THEN << 255, 0, 0, 0 >>
    ELSE IF q[1] <= 191 THEN << 255, 255, 0, 0 >>
    ELSE << 255, 255, 255, 0 >>

\* C12: with -m, for a valid IPv4 address given with no prefix and no
\* netmask, the NETMASK line shows the default classful netmask of the
\* address: 255.0.0.0 up to first octet 127, 255.255.0.0 for 128..191, and
\* 255.255.255.0 above.
C12_DefaultNetmaskShown ==
    ( /\ pc = "exit"
      /\ rc = 0
      /\ opts.showNetmask
      /\ ~ doInfo
      /\ ~ familyIPv6
      /\ prefixStr = NoPrefixStr
      /\ netmaskStr = NULL
      /\ inet_pton4_ok(ipStr.parts) )
    => out.netmask = ClassfulNetmask(ipStr.parts)

====
